---------------------------- MODULE Spec2Model ----------------------------
(***************************************************************************)
(* font2pbm: convert a Commodore 64 font to a Portable Bitmap (PBM) file.  *)
(*                                                                         *)
(* A model of src/font2pbm.c (the first translation unit, lines 1-235):    *)
(* main's stages as actions, readfile / createpbm / printpbm as operators  *)
(* that the actions apply.  Buffers are functions over 0..size-1, as in C. *)
(***************************************************************************)
EXTENDS Integers, Sequences, FiniteSets, TLC

(***************************************************************************)
(* Bounds of the model.                                                    *)
(***************************************************************************)
\* Largest character count written on the command line.
MaxChars == 64

(***************************************************************************)
(* Program constants.                                                      *)
(***************************************************************************)
\* output.x = 256
PbmWidth == 256
\* skip = 2: the load address
LoadAddress == 2
\* for (line = 0; line < 8; ++ line): scan lines of one glyph cell
ScanLines == 8

\* The content of a byte of memory that was allocated and never stored to.
Uninit == -1

(***************************************************************************)
(* C integer arithmetic (division truncates toward zero).                  *)
(***************************************************************************)
CDiv(a, b) == IF a >= 0 THEN a \div b ELSE -((-a) \div b)

CMod(a, b) == a - b * CDiv(a, b)

\* Conversion of an int to size_t: a negative int becomes a value above
\* PTRDIFF_MAX, which no allocator serves and no stream holds.
Huge(n) == n < 0

Min(a, b) == IF a <= b THEN a ELSE b

(***************************************************************************)
(* Command-line tokens are sequences of one-character strings.             *)
(***************************************************************************)
Digits == {"0", "1", "2", "3", "4", "5", "6", "7", "8", "9"}

DigitVal(c) ==
    CASE c = "0" -> 0 [] c = "1" -> 1 [] c = "2" -> 2 [] c = "3" -> 3
      [] c = "4" -> 4 [] c = "5" -> 5 [] c = "6" -> 6 [] c = "7" -> 7
      [] c = "8" -> 8 [] c = "9" -> 9

DigitChar(d) == <<"0", "1", "2", "3", "4", "5", "6", "7", "8", "9">>[d + 1]

\* The decimal spelling of a non-negative number, as typed by the user.
RECURSIVE Dec(_)
Dec(n) == IF n < 10 THEN <<DigitChar(n)>>
          ELSE Append(Dec(n \div 10), DigitChar(n % 10))

\* %d skips leading white space.
RECURSIVE SkipWs(_, _)
SkipWs(s, p) == IF p <= Len(s) /\ s[p] = " " THEN SkipWs(s, p + 1) ELSE p

\* Index of the first character at or after p that is not a digit.
RECURSIVE DigitsEnd(_, _)
DigitsEnd(s, p) == IF p <= Len(s) /\ s[p] \in Digits THEN DigitsEnd(s, p + 1) ELSE p

\* Value of the digit string s[p..e-1].
RECURSIVE DigitsVal(_, _, _, _)
DigitsVal(s, p, e, acc) ==
    IF p >= e THEN acc ELSE DigitsVal(s, p + 1, e, acc * 10 + DigitVal(s[p]))

\* One %d conversion of sscanf starting at position p of s: optional white
\* space, optional sign, one or more digits.  eof: the input ended before
\* anything could be converted.
ScanInt(s, p) ==
    LET w == SkipWs(s, p)
        q == IF w <= Len(s) /\ s[w] \in {"+", "-"} THEN w + 1 ELSE w
        e == DigitsEnd(s, q)
        v == DigitsVal(s, q, e, 0)
    IN  IF e = q
        THEN [ok |-> FALSE, eof |-> w > Len(s), val |-> 0, next |-> q]
        ELSE [ok |-> TRUE, eof |-> FALSE,
              val |-> IF q > w /\ s[w] = "-" THEN -v ELSE v, next |-> e]

\* sscanf(s, "%dx%d", &a, &b): the number of conversions, and the values.
SscanfSize(s) ==
    LET a == ScanInt(s, 1)
    IN  IF ~a.ok THEN [n |-> IF a.eof THEN -1 ELSE 0, a |-> 0, b |-> 0]
        ELSE IF ~(a.next <= Len(s) /\ s[a.next] = "x")
        THEN [n |-> 1, a |-> a.val, b |-> 0]
        ELSE LET b == ScanInt(s, a.next + 1)
             IN  IF b.ok THEN [n |-> 2, a |-> a.val, b |-> b.val]
                 ELSE [n |-> 1, a |-> a.val, b |-> 0]

\* sscanf(s, "%d", &a)
SscanfInt(s) ==
    LET a == ScanInt(s, 1)
    IN  IF a.ok THEN [n |-> 1, a |-> a.val]
        ELSE [n |-> IF a.eof THEN -1 ELSE 0, a |-> 0]

(***************************************************************************)
(* The inputs of a run.                                                    *)
(***************************************************************************)
ProgName == <<"f", "o", "n", "t", "2", "p", "b", "m">>
RomFlag == <<"-", "r">>
FontFile == <<"c", "h", "a", "r", "s">>
ExtraArg == <<"e", "x", "t", "r", "a">>

SizeTokens ==
    { <<"1", "x", "1">>, <<"1", "x", "2">>, <<"2", "x", "1">>, <<"2", "x", "2">>,
      <<"3", "x", "1">>, <<"2", "x">>, <<"x", "2">> }

\* Character counts up to MaxChars: the small ones, and those next to a
\* multiple of 16, where a line of 16 or of 32 characters ends.
NumChars == { n \in 0..MaxChars : n < 4 \/ n % 16 \in {0, 1, 15} }

NumTokens ==
    { Dec(n) : n \in NumChars } \cup { <<"-", "1">>, <<"n">> }

\* The first len positional arguments of: size num filename extra extra
Positional(s, n, len) == SubSeq(<<s, n, FontFile, ExtraArg, ExtraArg>>, 1, len)

ArgLists ==
    { f \o Positional(s, n, len) :
        f \in { <<ProgName>>, <<ProgName, RomFlag>> },
        s \in SizeTokens, n \in NumTokens, len \in 0..5 }

\* How far the length of the input streams is from the declared font size.
Slack == {-1, 0, 1, 2}

\* The two input streams carry different bytes at every offset.
StreamByte(name, k) ==
    IF name = "stdin" THEN (k * 7 + (k \div 8) * 3 + 1) % 256
    ELSE (k * 11 + (k \div 8) * 5 + 128) % 256

\* chars * xsize * ysize * 8 as the arguments av declare it (0 when they do
\* not parse): the input streams are sized around it.
Unflagged(av) == IF Len(av) >= 2 /\ av[2] = RomFlag THEN Tail(av) ELSE av

DeclaredSize(av) ==
    LET a == Unflagged(av)
    IN  IF Len(a) < 3 THEN 0
        ELSE LET sz == SscanfSize(a[2])
                 nm == SscanfInt(a[3])
             IN  IF sz.n = 2 /\ nm.n = 1 THEN nm.a * sz.a * sz.b * 8 ELSE 0

(***************************************************************************)
(* malloc.  The allocator answers a zero-byte request with a null pointer  *)
(* (zn) or with a unique pointer, and the oom-th request of the run fails  *)
(* for lack of memory (oom = 0: none does).                                *)
(***************************************************************************)
MallocOk(zn, oom, callno, n) ==
    /\ ~Huge(n)
    /\ callno # oom
    /\ ~(n = 0 /\ zn)

NullBuf == [null |-> TRUE, mem |-> <<>>]

(***************************************************************************)
(* uint8_t *readfile(FILE *file, int bytes, int skip)                      *)
(* The stream is given by its name, its length len and its position pos;   *)
(* allocated tells how malloc(bytes) answered.                             *)
(***************************************************************************)
\* for (i = 0; i < skip; ++ i) fgetc(file);  -- fgetc at end of file reads nothing
RECURSIVE SkipLoad(_, _, _, _)
SkipLoad(pos, len, i, skipn) ==
    IF i < skipn
    THEN SkipLoad(IF pos < len THEN pos + 1 ELSE pos, len, i + 1, skipn)
    ELSE pos

\* Mutant of Fread: a short read is reported as a full one.
FreadAll(pos, len, bytes) == IF Huge(bytes) THEN len - pos ELSE bytes

\* fread(buffer, 1, bytes, file): the number of bytes read
Fread(pos, len, bytes) == IF Huge(bytes) THEN len - pos ELSE Min(bytes, len - pos)

ReadFile(name, len, pos, bytes, skipn, allocated) ==
    LET start  == SkipLoad(pos, len, 0, skipn)
        length == Fread(start, len, bytes)
    IN  IF ~allocated THEN [buffer |-> NullBuf, pos |-> start]
        ELSE IF Huge(bytes) \/ length # bytes
        THEN [buffer |-> NullBuf, pos |-> start + length]
        ELSE [buffer |-> [null |-> FALSE,
                          mem  |-> [k \in 0..(length - 1) |-> StreamByte(name, start + k)]],
              pos |-> start + length]

(***************************************************************************)
(* struct pbm createpbm(int x, int y, const uint8_t *data, int numchars)   *)
(***************************************************************************)
\* charsperline = 32 / x
CharsPerLine(x) == CDiv(32, x)

\* Mutant of Height: every line is taken to hold 32 characters.
HeightOf32(x, y, numchars) == CDiv(numchars, 32) * 8 * y

\* Mutant of Height: a line is taken to hold 8 characters.
HeightOf8(x, y, numchars) == CDiv(numchars, 8) * 8 * y

\* output.y = numchars / charsperline * 8 * y
Height(x, y, numchars) == CDiv(numchars, CharsPerLine(x)) * 8 * y

\* malloc(256 / 8 * output.y), fwrite(pbm.data, 1, 256 / 8 * pbm.y, stdout)
RasterBytes(h) == CDiv(PbmWidth, 8) * h

\* Mutant of XPos: the character's width is left out of its column.
XPosUnscaled(x, i, xchar) == CMod(i, CharsPerLine(x)) * 8 + xchar * 8

\* xpos = (i % charsperline) * 8 * x + xchar * 8
XPos(x, i, xchar) == CMod(i, CharsPerLine(x)) * 8 * x + xchar * 8

\* ypos = (i / charsperline) * 8 * y + 8 * ychar
YPos(x, y, i, ychar) == CDiv(i, CharsPerLine(x)) * 8 * y + 8 * ychar

\* Mutant of FontOfs: the planes are taken in the other order.
FontOfsSwapped(x, numchars, i, xchar, ychar) ==
    (i + ychar * numchars + xchar * numchars * x) * 8

\* fontofs = (i + xchar * numchars + ychar * numchars * x) * 8
FontOfs(x, numchars, i, xchar, ychar) ==
    (i + xchar * numchars + ychar * numchars * x) * 8

\* Mutant of PbmOfs: the column is counted in pixels, not in bytes.
PbmOfsPixels(xpos, ypos) == CDiv(ypos * PbmWidth, 8) + xpos

\* pbmofs = ypos * 256 / 8 + xpos / 8
PbmOfs(xpos, ypos) == CDiv(ypos * PbmWidth, 8) + CDiv(xpos, 8)

\* output.data[pbmofs + line * 256 / 8] = data[fontofs + line];
\* st.mem is the bitmap, st.trace the <<store index, load index>> pairs so
\* far.  A load outside data yields an indeterminate byte, a store outside
\* the bitmap leaves the bitmap as it is (and is dealt with by the caller).
StoreLine(st, data, pbmofs, fontofs, line) ==
    LET dst == pbmofs + CDiv(line * PbmWidth, 8)
        src == fontofs + line
        v   == IF src \in DOMAIN data THEN data[src] ELSE Uninit
    IN  [mem   |-> IF dst \in DOMAIN st.mem THEN [st.mem EXCEPT ![dst] = v] ELSE st.mem,
         trace |-> Append(st.trace, <<dst, src>>)]

\* The loops below hand st from one iteration to the next; Done(st) makes
\* TLC evaluate it when the iteration starts instead of piling up the whole
\* loop nest unevaluated.
Done(st) == DOMAIN st = {"mem", "trace"}

\* for (line = 0; line < 8; ++ line)
RECURSIVE LineLoop(_, _, _, _, _)
LineLoop(st, data, pbmofs, fontofs, line) ==
    IF Done(st) /\ line < ScanLines
    THEN LineLoop(StoreLine(st, data, pbmofs, fontofs, line), data, pbmofs, fontofs, line + 1)
    ELSE st

\* for (ychar = 0; ychar < y; ++ ychar)
RECURSIVE YLoop(_, _, _, _, _, _, _, _)
YLoop(st, x, y, data, numchars, i, xchar, ychar) ==
    IF Done(st) /\ ychar < y
    THEN LET xpos    == XPos(x, i, xchar)
             ypos    == YPos(x, y, i, ychar)
             fontofs == FontOfs(x, numchars, i, xchar, ychar)
             pbmofs  == PbmOfs(xpos, ypos)
         IN  YLoop(LineLoop(st, data, pbmofs, fontofs, 0),
                   x, y, data, numchars, i, xchar, ychar + 1)
    ELSE st

\* for (xchar = 0; xchar < x; ++ xchar)
RECURSIVE XLoop(_, _, _, _, _, _, _)
XLoop(st, x, y, data, numchars, i, xchar) ==
    IF Done(st) /\ xchar < x
    THEN XLoop(YLoop(st, x, y, data, numchars, i, xchar, 0),
               x, y, data, numchars, i, xchar + 1)
    ELSE st

\* for (i = 0; i < numchars; ++ i)
RECURSIVE CharLoop(_, _, _, _, _, _)
CharLoop(st, x, y, data, numchars, i) ==
    IF Done(st) /\ i < numchars
    THEN CharLoop(XLoop(st, x, y, data, numchars, i, 0), x, y, data, numchars, i + 1)
    ELSE st

CreatePbm(x, y, data, numchars, allocated) ==
    LET h == Height(x, y, numchars)
    IN  IF ~allocated
        THEN [x |-> PbmWidth, y |-> h, data |-> NullBuf, trace |-> <<>>]
        ELSE LET fresh == [k \in 0..(RasterBytes(h) - 1) |-> Uninit]
                 st    == CharLoop([mem |-> fresh, trace |-> <<>>], x, y, data, numchars, 0)
             IN  [x |-> PbmWidth, y |-> h,
                  data |-> [null |-> FALSE, mem |-> st.mem], trace |-> st.trace]

\* The stores of a createpbm call that fall outside the allocated bitmap.
WildStores(tr, size) == { k \in 1..Len(tr) : ~(tr[k][1] >= 0 /\ tr[k][1] < size) }

(***************************************************************************)
(* void printpbm(struct pbm pbm): the header, then 256 / 8 * pbm.y bytes.  *)
(* A byte that was never stored to is written as fill.                     *)
(***************************************************************************)
PrintPbm(out, p, fill) ==
    out \o << [kind |-> "header", x |-> p.x, y |-> p.y, bytes |-> <<>>],
              [kind |-> "raster", x |-> 0, y |-> 0,
               bytes |-> [k \in 0..(RasterBytes(p.y) - 1) |->
                            IF p.data.mem[k] = Uninit THEN fill ELSE p.data.mem[k]]] >>

(***************************************************************************)
(* The state of a run of main.                                             *)
(***************************************************************************)
VARIABLES
    argc, argv,             \* main's parameters (argv[0] is argv[1] here)
    skip, xsize, ysize, chars,
    file,                   \* the stream main reads: "none", "stdin", "named"
    data,                   \* the glyph buffer
    pbm,                    \* the struct pbm createpbm returned
    trace,                  \* the <<store, load>> index pairs of createpbm's loop
    pc,                     \* the stage main is about to run
    exitcode,               \* main's return value, -1 while there is none
    stdout, stderr,
    fileExists,             \* whether fopen finds the named file
    inputLen,               \* length of the input streams
    streamPos,              \* bytes consumed from each stream
    fopens, fcloses,        \* number of fopen and of fclose calls so far
    zeroNull, oomAt,        \* the allocator, see MallocOk
    mallocs,                \* number of malloc calls so far
    freed,                  \* the buffers main has released
    stages                  \* the stages started so far, in order

vars == <<argc, argv, skip, xsize, ysize, chars, file, data, pbm, trace, pc,
          exitcode, stdout, stderr, fileExists, inputLen, streamPos, fopens, fcloses,
          zeroNull, oomAt, mallocs, freed, stages>>

env == <<fileExists, inputLen, zeroNull, oomAt>>

\* argv[k] of the C program.  argv[argc] is a null pointer, which the C
\* library prints as "(null)".
NullText == <<"(", "n", "u", "l", "l", ")">>
Arg(k) == IF k + 1 <= Len(argv) THEN argv[k + 1] ELSE NullText

Allocators == { <<FALSE, 0>>, <<TRUE, 0>>, <<FALSE, 1>>, <<FALSE, 2>> }

Init ==
    /\ argv \in ArgLists
    /\ argc = Len(argv)
    /\ skip = 0 /\ xsize = 0 /\ ysize = 0 /\ chars = 0
    /\ file = "none"
    /\ data = NullBuf
    /\ pbm = [x |-> 0, y |-> 0, data |-> NullBuf]
    /\ trace = <<>>
    /\ pc = "flag"
    /\ exitcode = -1
    /\ stdout = <<>> /\ stderr = <<>>
    /\ fileExists \in BOOLEAN
    /\ fileExists \/ Len(Unflagged(argv)) = 4
    /\ \E d \in Slack : inputLen = IF DeclaredSize(argv) + d < 0 THEN 0
                                   ELSE DeclaredSize(argv) + d
    /\ streamPos = [s \in {"stdin", "named"} |-> 0]
    /\ fopens = 0 /\ fcloses = 0
    /\ \E a \in Allocators : zeroNull = a[1] /\ oomAt = a[2]
    /\ mallocs = 0
    /\ freed = {}
    /\ stages = <<>>

Exit(code) == pc' = "done" /\ exitcode' = code

\* if (argc >= 2 && strcmp(argv[1], "-r") == 0) ... else skip = 2;
CheckFlag ==
    /\ pc = "flag"
    /\ IF argc >= 2 /\ Arg(1) = RomFlag
       THEN skip' = 0 /\ argc' = argc - 1 /\ argv' = Tail(argv)
       ELSE skip' = LoadAddress /\ UNCHANGED <<argc, argv>>
    /\ pc' = "help"
    /\ stages' = Append(stages, "flag")
    /\ UNCHANGED <<xsize, ysize, chars, file, data, pbm, trace, exitcode, stdout,
                   stderr, streamPos, fopens, fcloses, mallocs, freed>>
    /\ UNCHANGED env

\* if (argc < 3 || argc > 5) { printf("Usage: ..."); return 0; }
UsageOk(n) == ~(n < 3 \/ n > 5)

HelpScreen ==
    /\ pc = "help"
    /\ IF UsageOk(argc)
       THEN pc' = "size" /\ UNCHANGED <<stdout, exitcode>>
       ELSE /\ stdout' = Append(stdout, [kind |-> "usage", x |-> 0, y |-> 0, bytes |-> <<>>])
            /\ Exit(0)
    /\ UNCHANGED <<argc, argv, skip, xsize, ysize, chars, file, data, pbm, trace,
                   stderr, streamPos, fopens, fcloses, mallocs, freed, stages>>
    /\ UNCHANGED env

\* Mutant of IllegalSize: the upper limit of the width is not checked.
IllegalSizeNoMax(sz) == sz.n # 2 \/ sz.a < 1 \/ sz.b < 1 \/ sz.b > 2

\* sscanf(argv[1], "%dx%d", &xsize, &ysize) != 2 || xsize < 1 || xsize > 2 ||
\* ysize < 1 || ysize > 2
IllegalSize(sz) == sz.n # 2 \/ sz.a < 1 \/ sz.a > 2 \/ sz.b < 1 \/ sz.b > 2

CheckSize ==
    /\ pc = "size"
    /\ LET sz == SscanfSize(Arg(1))
       IN  /\ xsize' = IF sz.n >= 1 THEN sz.a ELSE xsize
           /\ ysize' = IF sz.n >= 2 THEN sz.b ELSE ysize
           /\ IF IllegalSize(sz)
              THEN /\ stderr' = Append(stderr, [msg |-> "Illegal size specification", arg |-> Arg(1)])
                   /\ Exit(1)
              ELSE pc' = "count" /\ UNCHANGED <<stderr, exitcode>>
    /\ stages' = Append(stages, "size")
    /\ UNCHANGED <<argc, argv, skip, chars, file, data, pbm, trace, stdout,
                   streamPos, fopens, fcloses, mallocs, freed>>
    /\ UNCHANGED env

\* if (sscanf(argv[2], "%d", &chars) != 1)
CheckChars ==
    /\ pc = "count"
    /\ LET nm == SscanfInt(Arg(2))
       IN  IF nm.n # 1
           THEN /\ stderr' = Append(stderr, [msg |-> "Illegal number of chars", arg |-> Arg(2)])
                /\ Exit(1)
                /\ UNCHANGED chars
           ELSE chars' = nm.a /\ pc' = "open" /\ UNCHANGED <<stderr, exitcode>>
    /\ stages' = Append(stages, "count")
    /\ UNCHANGED <<argc, argv, skip, xsize, ysize, file, data, pbm, trace, stdout,
                   streamPos, fopens, fcloses, mallocs, freed>>
    /\ UNCHANGED env

\* if (4 == argc) { file = fopen(argv[3], "rb"); if (!file) ... } else file = stdin;
NamesFile(n) == 4 = n

OpenFile ==
    /\ pc = "open"
    /\ IF NamesFile(argc)
       THEN /\ fopens' = fopens + 1
            /\ UNCHANGED fcloses
            /\ IF fileExists /\ Arg(3) = FontFile
               THEN file' = "named" /\ pc' = "read" /\ UNCHANGED <<stderr, exitcode>>
               ELSE /\ stderr' = Append(stderr, [msg |-> "Can't open", arg |-> Arg(3)])
                    /\ Exit(1)
                    /\ UNCHANGED file
       ELSE file' = "stdin" /\ pc' = "read" /\ UNCHANGED <<fopens, fcloses, stderr, exitcode>>
    /\ stages' = Append(stages, "open")
    /\ UNCHANGED <<argc, argv, skip, xsize, ysize, chars, data, pbm, trace, stdout,
                   streamPos, mallocs, freed>>
    /\ UNCHANGED env

\* data = readfile(file, chars * xsize * ysize * 8, skip);
\* if (4 == argc) fclose(file);  if (!data) ...
ReadData ==
    /\ pc = "read"
    /\ \E r \in { ReadFile(file, inputLen, streamPos[file], chars * xsize * ysize * 8, skip,
                          MallocOk(zeroNull, oomAt, mallocs + 1,
                                   chars * xsize * ysize * 8)) } :
           /\ data' = r.buffer
           /\ streamPos' = [streamPos EXCEPT ![file] = r.pos]
           /\ IF r.buffer.null
              THEN /\ stderr' = Append(stderr, [msg |-> "Invalid input", arg |-> Arg(3)])
                   /\ Exit(1)
              ELSE pc' = "convert" /\ UNCHANGED <<stderr, exitcode>>
    /\ fcloses' = IF NamesFile(argc) THEN fcloses + 1 ELSE fcloses
    /\ mallocs' = mallocs + 1
    /\ stages' = Append(stages, "load")
    /\ UNCHANGED <<argc, argv, skip, xsize, ysize, chars, file, pbm, trace, stdout,
                   fopens, freed>>
    /\ UNCHANGED env

\* pbm = createpbm(xsize, ysize, data, chars); if (!pbm.data) ...
\* A store outside the allocated bitmap corrupts the heap: the run is killed
\* or it goes on.
ConvertToPbm ==
    /\ pc = "convert"
    /\ \E r \in { CreatePbm(xsize, ysize, data.mem, chars,
                           MallocOk(zeroNull, oomAt, mallocs + 1,
                                    RasterBytes(Height(xsize, ysize, chars)))) } :
           /\ pbm' = [x |-> r.x, y |-> r.y, data |-> r.data]
           /\ trace' = r.trace
           /\ IF r.data.null
              THEN /\ stderr' = Append(stderr, [msg |-> "Out of memroy", arg |-> <<>>])
                   /\ Exit(1)
              ELSE /\ UNCHANGED <<stderr, exitcode>>
                   /\ IF WildStores(r.trace, RasterBytes(r.y)) # {}
                      THEN pc' \in {"crashed", "output"}
                      ELSE pc' = "output"
    /\ mallocs' = mallocs + 1
    /\ stages' = Append(stages, "layout")
    /\ UNCHANGED <<argc, argv, skip, xsize, ysize, chars, file, data, stdout,
                   streamPos, fopens, fcloses, freed>>
    /\ UNCHANGED env

\* printpbm(pbm); free(data); free(pbm.data); return 0;
\* data and pbm keep what the buffers held when they were released.
OutputImage ==
    /\ pc = "output"
    /\ \E fill \in {0, 255} :
          /\ fill = 0 \/ \E k \in DOMAIN pbm.data.mem : pbm.data.mem[k] = Uninit
          /\ stdout' = PrintPbm(stdout, pbm, fill)
    /\ freed' = {"data", "pbm.data"}
    /\ Exit(0)
    /\ stages' = Append(stages, "emit")
    /\ UNCHANGED <<argc, argv, skip, xsize, ysize, chars, file, data, pbm, trace,
                   stderr, streamPos, fopens, fcloses, mallocs>>
    /\ UNCHANGED env

Next ==
    \/ CheckFlag
    \/ HelpScreen
    \/ CheckSize
    \/ CheckChars
    \/ OpenFile
    \/ ReadData
    \/ ConvertToPbm
    \/ OutputImage

Spec == Init /\ [][Next]_vars

(***************************************************************************)
(* Properties.                                                             *)
(***************************************************************************)
\* The stage has been started.
Ran(stage) == \E k \in DOMAIN stages : stages[k] = stage

LastStage == IF stages = <<>> THEN "none" ELSE stages[Len(stages)]

\* The font size the arguments declare, in bytes.
FontBytes == chars * xsize * ysize * 8

\* The characters fill whole lines of the bitmap.
WholeLines == chars >= 0 /\ chars % (32 \div xsize) = 0

\* createpbm returned a bitmap.
Converted == Ran("layout") /\ ~pbm.data.null

\* The spec's destination offset of scan line l of sub-cell (xc, yc) of
\* character i, and the spec's source offset.
DestOffset(i, xc, yc, l) ==
    ((i \div (32 \div xsize)) * 8 * ysize + 8 * yc + l) * 32
        + ((i % (32 \div xsize)) * 8 * xsize + 8 * xc) \div 8

SourceOffset(i, xc, yc, l) == (i + xc * chars + yc * chars * xsize) * 8 + l

HeaderItem(w, h) == [kind |-> "header", x |-> w, y |-> h, bytes |-> <<>>]

\* C1: for a positive number of characters that fills whole lines, createpbm
\* returns width 256 and height (numChars / (32 / scaleX)) * 8 * scaleY, the
\* buffer it allocates is 32 * height bytes long, and so is what printpbm writes.
C1_RasterShape ==
    (Ran("layout") /\ chars > 0 /\ WholeLines) =>
        LET h == (chars \div (32 \div xsize)) * 8 * ysize
        IN  /\ pbm.x = 256
            /\ pbm.y = h
            /\ ~pbm.data.null => DOMAIN pbm.data.mem = 0..(32 * h - 1)
            /\ Ran("emit") => /\ Len(stdout) = 2
                              /\ stdout[1] = HeaderItem(256, h)
                              /\ stdout[2].kind = "raster"
                              /\ DOMAIN stdout[2].bytes = 0..(32 * h - 1)

C1_Witness == Ran("emit") /\ chars = 48 /\ xsize = 2 /\ ysize = 1 /\ WholeLines

\* C2: when the characters fill whole lines, after createpbm the bitmap byte at
\* the destination offset of every (character, sub-cell, scan line) equals the
\* font byte at its source offset; at 1x1 the block at block-row r and
\* block-column c holds the 8 bytes of cell 32 * r + c.
C2_CellPlacement ==
    (Converted /\ WholeLines) =>
        /\ \A i \in 0..(chars - 1), xc \in 0..(xsize - 1), yc \in 0..(ysize - 1), l \in 0..7 :
              pbm.data.mem[DestOffset(i, xc, yc, l)] = data.mem[SourceOffset(i, xc, yc, l)]
        /\ (xsize = 1 /\ ysize = 1) =>
              \A r \in 0..((chars \div 32) - 1), c \in 0..31, l \in 0..7 :
                 pbm.data.mem[(8 * r + l) * 32 + c] = data.mem[(32 * r + c) * 8 + l]

C2_Witness == Converted /\ WholeLines /\ chars = 32 /\ xsize = 2 /\ ysize = 2

\* C3: when the characters fill whole lines, reading the written bitmap back
\* through the inverse of the addressing gives the font data byte for byte, and
\* no two font bytes have the same destination.
C3_RoundTrip ==
    (Ran("emit") /\ WholeLines) =>
        LET raster == stdout[2].bytes
            decoded == [s \in 0..(FontBytes - 1) |->
                          LET cell  == s \div 8
                              plane == cell \div chars
                          IN  raster[DestOffset(cell % chars, plane % xsize,
                                                plane \div xsize, s % 8)]]
            dests == { DestOffset(i, xc, yc, l) :
                         i \in 0..(chars - 1), xc \in 0..(xsize - 1),
                         yc \in 0..(ysize - 1), l \in 0..7 }
        IN  /\ decoded = data.mem
            /\ Cardinality(dests) = FontBytes

C3_Witness == Ran("emit") /\ WholeLines /\ chars = 16 /\ xsize = 2 /\ ysize = 2

\* C4 (as claimed): when the characters do not fill whole lines, the height is
\* floor(numChars / charsPerLine) * 8 * scaleY and every store of createpbm
\* lies inside the bitmap, in [0, 32 * height).
C4_NoStoreOutside ==
    (Converted /\ chars >= 0 /\ ~WholeLines) =>
        /\ pbm.y = (chars \div (32 \div xsize)) * 8 * ysize
        /\ \A k \in DOMAIN trace : trace[k][1] >= 0 /\ trace[k][1] < 32 * pbm.y

\* C5 (as claimed): with num = 0, however the allocator answers a zero-byte
\* request, the run ends without error and writes the header "256 0" and no
\* bitmap byte.
C5_ZeroCharsIsNoError ==
    (pc = "done" /\ Ran("load") /\ chars = 0 /\ oomAt = 0) =>
        /\ exitcode = 0
        /\ stderr = <<>>
        /\ stdout = << HeaderItem(256, 0),
                       [kind |-> "raster", x |-> 0, y |-> 0, bytes |-> <<>>] >>

\* C6: the stages run in the order size, count, open, load, layout, emit; a
\* failing stage ends the run with exit code 1 and is the last one started;
\* an illegal size is rejected before any file is opened or byte read; an
\* input too short for the font ends the run at the load stage; and on
\* every exit with code 1 nothing has been written to standard output.
StageOrder == <<"flag", "size", "count", "open", "load", "layout", "emit">>

LegalSizes ==
    { <<"1", "x", "1">>, <<"1", "x", "2">>, <<"2", "x", "1">>, <<"2", "x", "2">> }

FailedStage(msg) ==
    CASE msg = "Illegal size specification" -> "size"
      [] msg = "Illegal number of chars" -> "count"
      [] msg = "Can't open" -> "open"
      [] msg = "Invalid input" -> "load"
      [] msg = "Out of memroy" -> "layout"

C6_StageOrder ==
    /\ stages = SubSeq(StageOrder, 1, Len(stages))
    /\ exitcode \in {-1, 0, 1}
    /\ exitcode = 1 =>
          /\ pc = "done"
          /\ stdout = <<>>
          /\ Len(stderr) = 1
          /\ FailedStage(stderr[1].msg) = LastStage
    /\ exitcode # 1 => stderr = <<>>
    /\ (Ran("size") /\ Arg(1) \notin LegalSizes) =>
          /\ exitcode = 1
          /\ LastStage = "size"
          /\ fopens = 0 /\ file = "none"
          /\ \A s \in DOMAIN streamPos : streamPos[s] = 0
    /\ (Ran("load") /\ chars >= 0 /\ inputLen - Min(skip, inputLen) < FontBytes) =>
          /\ exitcode = 1
          /\ LastStage = "load"
          /\ stdout = <<>>

C6_Witness ==
    /\ exitcode = 1 /\ LastStage = "load" /\ chars > 0
    /\ inputLen - skip = FontBytes - 1

\* C7 (as claimed): at scale 2x2 with 64 characters the height is 128, and the
\* bitmap 4096 bytes.
C7_ScenarioB128 ==
    (Converted /\ xsize = 2 /\ ysize = 2 /\ chars = 64) =>
        /\ pbm.x = 256 /\ pbm.y = 128
        /\ Cardinality(DOMAIN pbm.data.mem) = 4096

\* C7 (amended): at scale 2x2 with 64 characters createpbm produces width 256
\* and height (64 / 16) * 8 * 2 = 64, so 32 * 64 = 2048 bitmap bytes.
C7_ScenarioB64 ==
    (Converted /\ xsize = 2 /\ ysize = 2 /\ chars = 64) =>
        /\ pbm.x = 256 /\ pbm.y = 64
        /\ Cardinality(DOMAIN pbm.data.mem) = 2048
        /\ Ran("emit") => Cardinality(DOMAIN stdout[2].bytes) = 2048

C7_Witness == Ran("emit") /\ xsize = 2 /\ ysize = 2 /\ chars = 64

\* C8 (as claimed): once the input is chosen, it is the named file if a
\* filename follows size and num, and standard input if none does.
C8_FilenameSelectsInput ==
    (Ran("open") /\ file # "none") =>
        /\ (Len(argv) >= 4) => file = "named"
        /\ (Len(argv) < 4) => file = "stdin"

\* C9 (as claimed): without -r the first 2 bytes of the input are discarded
\* and the glyph buffer is stream bytes [2, 2 + N), with -r nothing is
\* discarded and it is bytes [0, N); the load succeeds if and only if at
\* least N bytes remain after the skip.
C9_LoadIffEnoughInput ==
    Ran("load") =>
        LET want == IF Arg(0) = RomFlag THEN 0 ELSE 2
        IN  /\ ~data.null <=> inputLen - want >= FontBytes
            /\ ~data.null =>
                  /\ data.mem = [k \in 0..(FontBytes - 1) |-> StreamByte(file, want + k)]
                  /\ streamPos[file] = want + FontBytes

\* C9 (amended): without -r the first 2 bytes of the input (all of it, if it
\* is shorter) are discarded, with -r none; the load succeeds if and only if
\* malloc returns a buffer for the N bytes and at least N bytes remain after
\* the skip, and then the glyph buffer is the N stream bytes that follow the
\* skip and the stream is consumed up to their end.
C9_LoadIffAllocatedAndEnoughInput ==
    Ran("load") =>
        LET want    == IF Arg(0) = RomFlag THEN 0 ELSE 2
            skipped == Min(want, inputLen)
        IN  /\ skip = want
            /\ ~data.null <=> /\ MallocOk(zeroNull, oomAt, 1, FontBytes)
                              /\ inputLen - skipped >= FontBytes
            /\ ~data.null =>
                  /\ data.mem = [k \in 0..(FontBytes - 1) |-> StreamByte(file, skipped + k)]
                  /\ streamPos[file] = skipped + FontBytes
            /\ data.null => streamPos[file] <= inputLen /\ streamPos[file] >= skipped

C9_Witness ==
    /\ Ran("load") /\ ~data.null /\ Arg(0) = RomFlag
    /\ chars > 0 /\ inputLen = FontBytes /\ streamPos[file] = inputLen

\* C10: when the characters fill whole lines, createpbm's loop loads every
\* byte of the font exactly once and stores to every byte of the bitmap
\* exactly once, all inside the two buffers; no bitmap byte printpbm writes is
\* left as allocated.
C10_CopyIsBijection ==
    (Converted /\ WholeLines) =>
        LET size == 32 * pbm.y
        IN  /\ Len(trace) = FontBytes
            /\ Len(trace) = size
            /\ { trace[k][1] : k \in DOMAIN trace } = 0..(size - 1)
            /\ { trace[k][2] : k \in DOMAIN trace } = 0..(FontBytes - 1)
            /\ \A k \in DOMAIN pbm.data.mem : pbm.data.mem[k] # Uninit
            /\ Ran("emit") => stdout[2].bytes = pbm.data.mem

C10_Witness == Converted /\ WholeLines /\ chars = 32 /\ xsize = 1 /\ ysize = 2 /\ Ran("emit")
=============================================================================
